---------------------------- MODULE Spec2Model ----------------------------
(***************************************************************************)
(* WeatherMe: the Presentation Client (src/client/pages/index.js, the Home *)
(* component) and the Relay Service (src/server/index.js).                 *)
(*                                                                         *)
(* Client.  The component state is the five useState cells.  Every call of *)
(* getWeather / getWeatherByLocation is an async invocation that is        *)
(* suspended at its awaits; the suspended invocations are the bag          *)
(* `pending`.  JavaScript runs one continuation at a time, so the code     *)
(* between two awaits is one atomic action.  Nothing disables the input or *)
(* the buttons while loading, so invocations overlap freely.               *)
(*                                                                         *)
(* Relay.  One request at a time is followed through its handler: receipt, *)
(* validation, the upstream call, the response.  The relay keeps no state  *)
(* between requests.                                                       *)
(***************************************************************************)
EXTENDS Integers, Sequences, FiniteSets, Bags, TLC

VARIABLES
    city,          \* useState('')    index.js:14
    weather,       \* useState(null)  index.js:15
    forecast,      \* useState([])    index.js:16
    error,         \* useState('')    index.js:17
    loading,       \* useState(false) index.js:18
    geoSupported,  \* truthiness of navigator.geolocation (fixed per browser)
    pending,       \* bag of suspended async invocations
    last,          \* history: the handler step taken last
    animation,     \* what getAnimation() returned when last evaluated
    rq,            \* relay: the request being handled
    upstream,      \* relay: the upstream call in flight, or None
    res            \* relay: the response sent, or None

clientVars == <<city, weather, forecast, error, loading, geoSupported, pending, last,
                animation>>
relayVars  == <<rq, upstream, res>>
vars       == <<city, weather, forecast, error, loading, geoSupported, pending, last,
                animation, rq, upstream, res>>

-----------------------------------------------------------------------------
(* Bounds *)

\* Largest number of async invocations suspended at the same time.
MaxInFlight == 2

-----------------------------------------------------------------------------
(* Values *)

\* JavaScript null.
Null == [tag |-> "null"]

\* getAnimation() has not been evaluated.
NotRendered == [tag |-> "unrendered"]

\* The empty string '' of the error cell; messages are sequences of the parts
\* a template literal concatenates, so '' is the empty sequence.
EmptyStr == <<>>

\* The U+274C cross mark and space that prefix the error strings.
CrossMark == "(x) "

\* Texts the user can have typed into the input.
Cities == {"", " ", "London"}

\* Coordinates.
CoordLondon == [lat |-> 51, lon |-> 0]
CoordDevice == [lat |-> 48, lon |-> 2]

\* Observation payloads a 200 answer of /weather or /weather/geo can carry.
\* The last one has no coord member.
ObsLondon  == [name |-> "London", coord |-> CoordLondon]
ObsParis   == [name |-> "Paris", coord |-> CoordDevice]
ObsNoCoord == [name |-> "Atlantis"]
Payloads   == {ObsLondon, ObsParis, ObsNoCoord}

\* Positions reported by the device.
DevicePositions == {CoordDevice}

\* HTTP statuses of a failed relay answer.
FailStatuses == {404, 500}

\* A daily list as the relay returns it for a coordinate pair (entries carry
\* the coordinates they were requested for).
DailyFor(c) == <<[at |-> c, day |-> 1], [at |-> c, day |-> 2]>>

\* HTTP responses as fetch() delivers them: status and body text.  The body
\* is JSON text of a value, an HTML page, or text that is neither.
JsonBody(v) == [kind |-> "json", value |-> v]
HtmlBody    == [kind |-> "html"]
OtherBody   == [kind |-> "other"]

WeatherResponses ==
    {[status |-> 200, body |-> JsonBody(o)] : o \in Payloads}
    \cup {[status |-> 200, body |-> HtmlBody], [status |-> 200, body |-> OtherBody]}
    \cup {[status |-> s, body |-> JsonBody([error |-> "error"])] : s \in FailStatuses}

\* The answers the weather request of invocation p can get: an observation
\* returned for a /weather/geo request is one for the coordinates asked.
WeatherResponsesFor(p) ==
    {r \in WeatherResponses :
        (p.kind = "geo" /\ r.status = 200 /\ r.body.kind = "json"
            /\ "coord" \in DOMAIN r.body.value)
            => r.body.value.coord = p.coords}

ForecastResponses(c) ==
    {[status |-> 200, body |-> JsonBody([daily |-> DailyFor(c)])],
     [status |-> 200, body |-> JsonBody([list |-> <<>>])],
     [status |-> 200, body |-> HtmlBody],
     [status |-> 500, body |-> JsonBody([error |-> "error"])]}

-----------------------------------------------------------------------------
(* Client helpers *)

\* response.ok
ResponseOk(r) == r.status >= 200 /\ r.status <= 299

\* A thrown Error and a returned value.
Throw(msg) == [threw |-> TRUE, message |-> msg]
Return(v)  == [threw |-> FALSE, value |-> v]

\* safeFetch, from the response on: a non-ok status throws first, then an HTML
\* body, then JSON.parse (which throws on text that is not JSON).
safeFetch(r) ==
    IF ~ResponseOk(r) THEN Throw(<<"HTTP ", ToString(r.status)>>)
    ELSE IF r.body.kind = "html" THEN Throw(<<"Received HTML instead of JSON.">>)
    ELSE IF r.body.kind = "json" THEN Return(r.body.value)
    ELSE Throw(<<"SyntaxError">>)

\* `${CrossMark}${err.message}`
ErrText(msg) == <<CrossMark>> \o msg

\* Reading data.coord.lat / data.coord.lon throws a TypeError when data has
\* no coord member.
HasCoord(data) == "coord" \in DOMAIN data

\* data.daily || []
DailyOrEmpty(data) == IF "daily" \in DOMAIN data THEN data.daily ELSE <<>>

\* Suspended invocations.
AtHealth(kind, c, co)  == [pc |-> "health", kind |-> kind, city |-> c, coords |-> co]
AtWeather(kind, c, co) == [pc |-> "weather", kind |-> kind, city |-> c, coords |-> co]
AtGeo                  == [pc |-> "geo"]
AtForecast(co)         == [pc |-> "forecast", coords |-> co]

One(e) == SetToBag({e})
Replace(bag, old, new) == (bag (-) One(old)) (+) One(new)
Remove(bag, old) == bag (-) One(old)
InFlight == BagCardinality(pending)

Step(op, kind, stale) == [op |-> op, kind |-> kind, stale |-> stale]

\* The steps in which a weather response is handled.
WeatherSteps == {"weather:ok", "weather:failed"}

\* History of a step that stored a weather response: the data the response
\* carried, and whether the step before was the weather response of another
\* query (both weather requests were then in flight together).
Delivered(s, data, after) ==
    [op |-> s.op, kind |-> s.kind, stale |-> s.stale, data |-> data, after |-> after]


-----------------------------------------------------------------------------
(* Client: initial state *)

ClientInit ==
    /\ city = ""
    /\ weather = Null
    /\ forecast = <<>>
    /\ error = EmptyStr
    /\ loading = FALSE
    /\ geoSupported \in BOOLEAN
    /\ pending = EmptyBag
    /\ last = Step("init", "none", FALSE)
    /\ animation = NotRendered

-----------------------------------------------------------------------------
(* Client: handlers *)

\* onChange of the input: setCity(e.target.value).
SetCity(c) ==
    /\ c # city
    /\ city' = c
    /\ last' = Step("setCity", "none", FALSE)
    /\ UNCHANGED <<weather, forecast, error, loading, geoSupported, pending>>

\* `if (!city) return;`: the empty string is the only falsy string.
Falsy(s) == s = ""

\* getWeather's early return.
GetWeatherReturn ==
    /\ last' = Step("getWeather:return", "city", FALSE)
    /\ UNCHANGED <<city, weather, forecast, error, loading, geoSupported, pending>>

\* getWeather up to its first await: setLoading(true); setError('');
\* testAPIConnection() fetches /health.
GetWeatherStart ==
    /\ loading' = TRUE
    /\ error' = EmptyStr
    /\ pending' = pending (+) One(AtHealth("city", city, Null))
    /\ last' = Step("getWeather:start", "city", FALSE)
    /\ UNCHANGED <<city, weather, forecast, geoSupported>>

\* Click on "Get Weather" or Enter in the input.
GetWeather ==
    IF Falsy(city) THEN GetWeatherReturn
    ELSE InFlight < MaxInFlight /\ GetWeatherStart

\* getWeatherByLocation without navigator.geolocation.
GeoUnsupported ==
    /\ error' = <<"Geolocation not supported.">>
    /\ last' = Step("getWeatherByLocation:unsupported", "geo", FALSE)
    /\ UNCHANGED <<city, weather, forecast, loading, geoSupported, pending>>

\* getWeatherByLocation up to getCurrentPosition.
GeoStart ==
    /\ loading' = TRUE
    /\ error' = EmptyStr
    /\ pending' = pending (+) One(AtGeo)
    /\ last' = Step("getWeatherByLocation:start", "geo", FALSE)
    /\ UNCHANGED <<city, weather, forecast, geoSupported>>

\* Click on "Use My Location".
GetWeatherByLocation ==
    IF ~geoSupported THEN GeoUnsupported
    ELSE InFlight < MaxInFlight /\ GeoStart

\* getCurrentPosition's success callback up to its first await.
GeoGranted(co) ==
    /\ AtGeo \in BagToSet(pending)
    /\ pending' = Replace(pending, AtGeo, AtHealth("geo", "", co))
    /\ last' = Step("geo:granted", "geo", FALSE)
    /\ UNCHANGED <<city, weather, forecast, error, loading, geoSupported>>

\* A faulty GeoErrorCallback: the flag is not cleared.
GeoErrorCallbackStillLoading ==
    /\ error' = ErrText(<<"Failed to get your location.">>)
    /\ UNCHANGED loading
    /\ pending' = Remove(pending, AtGeo)
    /\ UNCHANGED <<weather>>

\* getCurrentPosition's error callback.
GeoErrorCallback ==
    /\ error' = ErrText(<<"Failed to get your location.">>)
    /\ loading' = FALSE
    /\ pending' = Remove(pending, AtGeo)
    /\ UNCHANGED <<weather>>

GeoDenied ==
    /\ AtGeo \in BagToSet(pending)
    /\ GeoErrorCallback
    /\ last' = Step("geo:denied", "geo", FALSE)
    /\ UNCHANGED <<city, forecast, geoSupported>>

\* A faulty CatchBlock: the observation is not cleared.
CatchBlockKeepsWeather(msg) ==
    /\ error' = ErrText(msg)
    /\ UNCHANGED weather

\* catch (err) { setError(...); setWeather(null); }
CatchBlock(msg) ==
    /\ error' = ErrText(msg)
    /\ weather' = Null

\* A faulty FinallyBlock: the flag is left as it is.
FinallyBlockSkipped == UNCHANGED loading

\* finally { setLoading(false); }
FinallyBlock == loading' = FALSE

\* The continuation after `await testAPIConnection()` with ok false: the throw,
\* the catch block and the finally block.
HealthFailed(p) ==
    /\ CatchBlock(<<"Backend API not responding.">>)
    /\ FinallyBlock
    /\ pending' = Remove(pending, p)
    /\ last' = Step("health:failed", p.kind, weather # Null)
    /\ UNCHANGED <<city, forecast, geoSupported>>

\* The continuation with ok true: safeFetch issues the weather request.
HealthOk(p) ==
    /\ pending' = Replace(pending, p, AtWeather(p.kind, p.city, p.coords))
    /\ last' = Step("health:ok", p.kind, FALSE)
    /\ UNCHANGED <<city, weather, forecast, error, loading, geoSupported>>

\* testAPIConnection resolves: response.ok, or false when fetch rejects.
HealthResolve(p, ok) ==
    /\ p \in BagToSet(pending)
    /\ p.pc = "health"
    /\ IF ok THEN HealthOk(p) ELSE HealthFailed(p)

\* A faulty ForecastCoords: the coordinates are read from the weather cell,
\* which still holds the observation of before setWeather(data).
ForecastCoordsFromCell(p, data) ==
    IF p.kind = "city"
    THEN (IF weather # Null THEN weather.coord ELSE data.coord)
    ELSE p.coords

\* The coordinates fetchForecast is called with: data.coord for a city query,
\* the device's coords for a location query.
ForecastCoords(p, data) == IF p.kind = "city" THEN data.coord ELSE p.coords

\* Whether the try block runs to its end: safeFetch returned and, for a city
\* query, data.coord could be read.
TryCompletes(p, out) == ~out.threw /\ (p.kind = "city" => HasCoord(out.value))

\* The message of the error the try block throws.
Thrown(p, out) ==
    IF out.threw THEN out.message ELSE <<"TypeError">>

\* A faulty WeatherOk: the observation is stored only when no other query is
\* waiting, as a latest-request guard would do.
WeatherOkUnlessOverlap(p, data) ==
    /\ weather' = IF \E q \in BagToSet(Remove(pending, p)) : q.pc \in {"geo", "health", "weather"}
                  THEN weather ELSE data
    /\ pending' = Replace(pending, p, AtForecast(ForecastCoords(p, data)))
    /\ UNCHANGED error

\* try block after the weather response: setWeather(data); fetchForecast(..)
\* (fetchForecast is not awaited: it runs to its own await and returns).
WeatherOk(p, data) ==
    /\ weather' = data
    /\ pending' = Replace(pending, p, AtForecast(ForecastCoords(p, data)))
    /\ UNCHANGED error

\* The weather request resolves.
WeatherResolve(p, r) ==
    /\ p \in BagToSet(pending)
    /\ p.pc = "weather"
    /\ LET out == safeFetch(r) IN
        IF TryCompletes(p, out)
        THEN /\ WeatherOk(p, out.value)
             /\ last' = Delivered(Step("weather:ok", p.kind, FALSE), out.value,
                                  last.op \in WeatherSteps)
        ELSE /\ CatchBlock(Thrown(p, out))
             /\ pending' = Remove(pending, p)
             /\ last' = Step("weather:failed", p.kind, weather # Null)
    /\ FinallyBlock
    /\ UNCHANGED <<city, forecast, geoSupported>>

\* fetchForecast after its await: setForecast(data.daily || []) or, in its
\* catch, setForecast([]).
ForecastValue(out) == IF out.threw THEN <<>> ELSE DailyOrEmpty(out.value)

ForecastResolve(p, r) ==
    /\ p \in BagToSet(pending)
    /\ p.pc = "forecast"
    /\ forecast' = ForecastValue(safeFetch(r))
    /\ pending' = Remove(pending, p)
    /\ last' = Step("forecast:resolved", "none", FALSE)
    /\ UNCHANGED <<city, weather, error, loading, geoSupported>>

-----------------------------------------------------------------------------
(* Client: getAnimation *)

\* Largest number of words of the condition label and description together.
MaxWords == 2

\* Condition texts are sequences of words; a keyword is a sequence of words
\* too ('thunderstorm' is 'thunder' followed by 'storm'), and includes() looks
\* for a run of consecutive words.
Words == {"rain", "snow", "thunder", "storm", "cloud", "clear", "sunny", "mist", "Rain"}

TextsOfLen(n) == [1..n -> Words]
TextsUpTo(n) == UNION {TextsOfLen(k) : k \in 0..n}

\* main.temp values, in degrees Celsius.
Temps == {-1, 0, 25, 26}

\* An observation as far as getAnimation reads it.
Condition(m, d, t) ==
    [weather |-> <<[main |-> m, description |-> d]>>, main |-> [temp |-> t]]

Conditions ==
    UNION {{Condition(m, d, t) : m \in TextsOfLen(i), d \in TextsUpTo(MaxWords - i), t \in Temps} :
              i \in 0..MaxWords}

\* String.prototype.toLowerCase
LowerWord(w) == IF w = "Rain" THEN "rain" ELSE w
toLowerCase(s) == [i \in 1..Len(s) |-> LowerWord(s[i])]

\* String.prototype.includes
includes(s, k) == \E i \in 0..(Len(s) - Len(k)) : SubSeq(s, i + 1, i + Len(k)) = k

\* The imported animation of a category (clear.json, rain.json, ...).
Asset(c) == [animation |-> c]

\* A faulty getAnimation: snow is looked for before rain.
getAnimationSnowFirst ==
    IF weather = Null THEN Null
    ELSE LET main        == toLowerCase(weather.weather[1].main)
             description == toLowerCase(weather.weather[1].description)
             temp        == weather.main.temp
         IN  IF includes(main, <<"snow">>) \/ includes(description, <<"snow">>) THEN Asset("snow")
             ELSE IF includes(main, <<"rain">>) \/ includes(description, <<"rain">>) THEN Asset("rain")
             ELSE IF \/ includes(main, <<"thunder", "storm">>)
                     \/ includes(main, <<"storm">>)
                     \/ includes(description, <<"thunder">>) THEN Asset("storm")
             ELSE IF includes(main, <<"cloud">>) \/ includes(description, <<"cloud">>) THEN Asset("cloud")
             ELSE IF \/ includes(main, <<"clear">>)
                     \/ includes(description, <<"clear">>)
                     \/ includes(description, <<"sunny">>) THEN Asset("clear")
             ELSE IF temp < 0 THEN Asset("snow")
             ELSE IF temp > 25 THEN Asset("clear")
             ELSE Asset("cloud")

\* getAnimation.
getAnimation ==
    IF weather = Null THEN Null
    ELSE LET main        == toLowerCase(weather.weather[1].main)
             description == toLowerCase(weather.weather[1].description)
             temp        == weather.main.temp
         IN  IF includes(main, <<"rain">>) \/ includes(description, <<"rain">>) THEN Asset("rain")
             ELSE IF includes(main, <<"snow">>) \/ includes(description, <<"snow">>) THEN Asset("snow")
             ELSE IF \/ includes(main, <<"thunder", "storm">>)
                     \/ includes(main, <<"storm">>)
                     \/ includes(description, <<"thunder">>) THEN Asset("storm")
             ELSE IF includes(main, <<"cloud">>) \/ includes(description, <<"cloud">>) THEN Asset("cloud")
             ELSE IF \/ includes(main, <<"clear">>)
                     \/ includes(description, <<"clear">>)
                     \/ includes(description, <<"sunny">>) THEN Asset("clear")
             ELSE IF temp < 0 THEN Asset("snow")
             ELSE IF temp > 25 THEN Asset("clear")
             ELSE Asset("cloud")

-----------------------------------------------------------------------------
(* Relay: values *)

\* No request, no upstream call, no response.
None == [tag |-> "none"]

\* Largest number of characters of lat and lon together.
MaxQueryLen == 4

\* Longest upstream forecast series.
MaxSeriesLen == 25

\* Characters of the lat / lon parameters.  There is no decimal point and no
\* exponent among them, so the numbers parseFloat reads here are integers.
Chars == {"0", "1", "9", "-", "x"}
Digits == {"0", "1", "2", "3", "4", "5", "6", "7", "8", "9"}

StrsOfLen(n) == [1..n -> Chars]
StrsUpTo(n) == UNION {StrsOfLen(k) : k \in 0..n}

\* req.query of the coordinate routes: lat and lon both given, one of them
\* given, or none.
CoordQueries ==
    UNION {{[lat |-> a, lon |-> b] : a \in StrsOfLen(i), b \in StrsUpTo(MaxQueryLen - i)} :
              i \in 0..MaxQueryLen}
    \cup {[lat |-> a] : a \in StrsUpTo(MaxQueryLen)}
    \cup {[lon |-> b] : b \in StrsUpTo(MaxQueryLen)}
    \cup {[k \in {} |-> <<>>]}

\* req.query of the city routes; a city name is a string of one symbol here.
RelayCities == {<<>>, <<"London">>, <<"Nowhereville">>}
CityQueries == UNION {[K -> RelayCities] : K \in SUBSET {"city"}}

\* What axios.get ends with: a 2xx answer with data, an answer with another
\* status (error.response.status), or no answer at all (error.response
\* undefined).
UpstreamStatuses == {400, 401, 404, 429, 500}
Answer(data)     == [kind |-> "ok", data |-> data]
HttpError(st)    == [kind |-> "http", status |-> st]
NetworkError     == [kind |-> "network"]
UpstreamFailures == {HttpError(st) : st \in UpstreamStatuses} \cup {NetworkError}

\* An upstream forecast series of n entries, timestamps ascending.
Series(n) == [i \in 1..n |-> [dt |-> i]]

WeatherOutcomes  == {Answer(o) : o \in {ObsLondon, ObsParis}} \cup UpstreamFailures
ForecastOutcomes ==
    {Answer([cnt |-> n, list |-> Series(n)]) : n \in 0..MaxSeriesLen}
    \cup {Answer([cod |-> "200"])}
    \cup UpstreamFailures

-----------------------------------------------------------------------------
(* Relay: helpers *)

\* !req.query.<k>: the parameter is undefined or the empty string.
NotGiven(q, k) == k \notin DOMAIN q \/ q[k] = <<>>

NaN    == [nan |-> TRUE]
Num(n) == [nan |-> FALSE, val |-> n]
isNaN(v) == v.nan

DigitVal(c) ==
    CASE c = "0" -> 0 [] c = "1" -> 1 [] c = "2" -> 2 [] c = "3" -> 3 [] c = "4" -> 4
      [] c = "5" -> 5 [] c = "6" -> 6 [] c = "7" -> 7 [] c = "8" -> 8 [] c = "9" -> 9

RECURSIVE SkipWhite(_)
SkipWhite(s) == IF s # <<>> /\ Head(s) = " " THEN SkipWhite(Tail(s)) ELSE s

\* The longest prefix of s made of digits.
RECURSIVE DigitPrefix(_)
DigitPrefix(s) ==
    IF s # <<>> /\ Head(s) \in Digits THEN <<Head(s)>> \o DigitPrefix(Tail(s)) ELSE <<>>

RECURSIVE DecimalValue(_)
DecimalValue(d) ==
    IF d = <<>> THEN 0 ELSE 10 * DecimalValue(SubSeq(d, 1, Len(d) - 1)) + DigitVal(d[Len(d)])

\* parseFloat: leading white space is skipped, then an optional sign, then
\* the longest prefix that is a number; what follows it is ignored.  NaN when
\* no digit is found there.
parseFloat(s) ==
    LET t    == SkipWhite(s)
        neg  == t # <<>> /\ Head(t) = "-"
        sgn  == t # <<>> /\ Head(t) \in {"-", "+"}
        body == IF sgn THEN Tail(t) ELSE t
        d    == DigitPrefix(body)
    IN  IF d = <<>> THEN NaN
        ELSE Num(IF neg THEN -DecimalValue(d) ELSE DecimalValue(d))

\* The coordinate check of /weather/geo and /forecast.
InvalidCoordinates(latitude, longitude) ==
    \/ isNaN(latitude) \/ isNaN(longitude)
    \/ latitude.val < -90 \/ latitude.val > 90
    \/ longitude.val < -180 \/ longitude.val > 180

\* res.status(st).json(body); res.json(body) sends 200.
Respond(st, body) == [status |-> st, body |-> body]

\* error.response?.status === st
StatusIs(e, st) == e.kind = "http" /\ e.status = st

InvalidKeyBody == [error |-> "Invalid API key",
                   message |-> <<"Please check your OpenWeatherMap API key">>]

\* A faulty WeatherCatch: upstream 404 is not told apart.
WeatherCatchNo404(e, c) ==
    IF StatusIs(e, 401) THEN Respond(401, InvalidKeyBody)
    ELSE Respond(500, [error |-> "Internal server error",
                       message |-> <<"Error fetching weather data for city">>])

\* catch block of GET /weather.
WeatherCatch(e, c) ==
    IF StatusIs(e, 404)
    THEN Respond(404, [error |-> "City not found",
                       message |-> <<"No weather data found for \"">> \o c \o <<"\"">>])
    ELSE IF StatusIs(e, 401) THEN Respond(401, InvalidKeyBody)
    ELSE Respond(500, [error |-> "Internal server error",
                       message |-> <<"Error fetching weather data for city">>])

\* A GeoCatch with the mapping of GET /weather, 404 included.
GeoCatchWith404(e) ==
    IF StatusIs(e, 404)
    THEN Respond(404, [error |-> "Location not found",
                       message |-> <<"No weather data found for the provided coordinates">>])
    ELSE IF StatusIs(e, 401) THEN Respond(401, InvalidKeyBody)
    ELSE Respond(500, [error |-> "Internal server error",
                       message |-> <<"Error fetching geolocation weather data">>])

\* catch block of GET /weather/geo.
GeoCatch(e) ==
    IF StatusIs(e, 401) THEN Respond(401, InvalidKeyBody)
    ELSE Respond(500, [error |-> "Internal server error",
                       message |-> <<"Error fetching geolocation weather data">>])

\* catch block of GET /forecast.
ForecastCatch(e) ==
    IF StatusIs(e, 401) THEN Respond(401, InvalidKeyBody)
    ELSE IF StatusIs(e, 404)
    THEN Respond(404, [error |-> "Location not found",
                       message |-> <<"No forecast data found for the provided coordinates">>])
    ELSE Respond(500, [error |-> "Internal server error",
                       message |-> <<"Error fetching forecast data">>])

\* catch block of GET /forecast/city.
ForecastCityCatch(e, c) ==
    IF StatusIs(e, 404)
    THEN Respond(404, [error |-> "City not found",
                       message |-> <<"No forecast data found for \"">> \o c \o <<"\"">>])
    ELSE IF StatusIs(e, 401) THEN Respond(401, InvalidKeyBody)
    ELSE Respond(500, [error |-> "Internal server error",
                       message |-> <<"Error fetching forecast data for city">>])

\* A faulty KeepIndex: indices counted from 1.
KeepIndexFromOne(idx) == (idx + 1) % 8 = 0

\* The callback of list.filter((_, idx) => idx % 8 === 0); idx counts from 0.
KeepIndex(idx) == idx % 8 = 0

\* list.filter over the indices, in order.
RECURSIVE FilterFrom(_, _)
FilterFrom(list, idx) ==
    IF idx >= Len(list) THEN <<>>
    ELSE (IF KeepIndex(idx) THEN <<list[idx + 1]>> ELSE <<>>) \o FilterFrom(list, idx + 1)

Daily(list) == FilterFrom(list, 0)

\* list.slice(0, 24)
Hourly(list) == SubSeq(list, 1, IF Len(list) < 24 THEN Len(list) ELSE 24)

\* { ...response.data, daily, hourly }
Processed(data) ==
    [k \in DOMAIN data \cup {"daily", "hourly"} |->
        IF k = "daily" THEN Daily(data.list)
        ELSE IF k = "hourly" THEN Hourly(data.list)
        ELSE data[k]]

\* The try block of the forecast routes after axios.get resolved: reading
\* response.data.list.filter throws a TypeError when data has no list, and the
\* catch block then sees an error without a response.
ForecastTry(data) ==
    IF "list" \in DOMAIN data THEN Answer(Processed(data)) ELSE NetworkError

-----------------------------------------------------------------------------
(* Relay: handlers *)

RelayInit ==
    /\ rq = None
    /\ upstream = None
    /\ res = None

Idle == rq = None

\* axios.get(endpoint, {params}); outcome is None until it settles.
Call(endpoint, params) == [endpoint |-> endpoint, params |-> params, outcome |-> None]

\* GET /weather up to the await.
WeatherReceive(q) ==
    /\ Idle
    /\ rq' = [route |-> "/weather", query |-> q]
    /\ IF NotGiven(q, "city")
       THEN /\ res' = Respond(400, [error |-> "City name is required"])
            /\ upstream' = None
       ELSE /\ res' = None
            /\ upstream' = Call("weather", [q |-> q.city])

\* The coordinate routes up to the await.
CoordReceive(route, endpoint, q) ==
    /\ Idle
    /\ rq' = [route |-> route, query |-> q]
    /\ IF NotGiven(q, "lat") \/ NotGiven(q, "lon")
       THEN /\ res' = Respond(400, [error |-> "Latitude and longitude are required"])
            /\ upstream' = None
       ELSE LET latitude  == parseFloat(q.lat)
                longitude == parseFloat(q.lon)
            IN  IF InvalidCoordinates(latitude, longitude)
                THEN /\ res' = Respond(400, [error |-> "Invalid coordinates"])
                     /\ upstream' = None
                ELSE /\ res' = None
                     /\ upstream' = Call(endpoint, [lat |-> latitude.val, lon |-> longitude.val])

\* GET /forecast/city up to the await.
ForecastCityReceive(q) ==
    /\ Idle
    /\ rq' = [route |-> "/forecast/city", query |-> q]
    /\ IF NotGiven(q, "city")
       THEN /\ res' = Respond(400, [error |-> "City name is required"])
            /\ upstream' = None
       ELSE /\ res' = None
            /\ upstream' = Call("forecast", [q |-> q.city])

Awaiting == rq # None /\ upstream # None /\ res = None

\* The handler of rq.route after its await.
AfterAwait(route, q, o) ==
    CASE route = "/weather" ->
            IF o.kind = "ok" THEN Respond(200, o.data) ELSE WeatherCatch(o, q.city)
      [] route = "/weather/geo" ->
            IF o.kind = "ok" THEN Respond(200, o.data) ELSE GeoCatch(o)
      [] route = "/forecast" ->
            LET t == IF o.kind = "ok" THEN ForecastTry(o.data) ELSE o
            IN  IF t.kind = "ok" THEN Respond(200, t.data) ELSE ForecastCatch(t)
      [] route = "/forecast/city" ->
            LET t == IF o.kind = "ok" THEN ForecastTry(o.data) ELSE o
            IN  IF t.kind = "ok" THEN Respond(200, t.data) ELSE ForecastCityCatch(t, q.city)

\* axios.get settles with outcome o, which is kept in the call's record.
UpstreamSettles(o) ==
    /\ Awaiting
    /\ res' = AfterAwait(rq.route, rq.query, o)
    /\ upstream' = [upstream EXCEPT !.outcome = o]
    /\ UNCHANGED rq


\* The outcomes the upstream endpoint of the call in flight can have.
Outcomes == IF upstream.endpoint = "weather" THEN WeatherOutcomes ELSE ForecastOutcomes

\* The response is sent and the handler is over; nothing is kept.
RelayDone ==
    /\ res # None
    /\ rq' = None
    /\ upstream' = None
    /\ res' = None

-----------------------------------------------------------------------------
(* Next-state relations *)

Init == ClientInit /\ RelayInit

TypeCity          == (\E c \in Cities : SetCity(c)) /\ UNCHANGED <<relayVars, animation>>
SubmitEmpty       == Falsy(city) /\ GetWeather /\ UNCHANGED <<relayVars, animation>>
SubmitCity        == ~Falsy(city) /\ GetWeather /\ UNCHANGED <<relayVars, animation>>
LocateUnsupported == ~geoSupported /\ GetWeatherByLocation /\ UNCHANGED <<relayVars, animation>>
Locate            == geoSupported /\ GetWeatherByLocation /\ UNCHANGED <<relayVars, animation>>
PositionGranted   == (\E co \in DevicePositions : GeoGranted(co)) /\ UNCHANGED <<relayVars, animation>>
PositionDenied    == GeoDenied /\ UNCHANGED <<relayVars, animation>>
HealthUp          == (\E p \in BagToSet(pending) : HealthResolve(p, TRUE))
                     /\ UNCHANGED <<relayVars, animation>>
HealthDown        == (\E p \in BagToSet(pending) : HealthResolve(p, FALSE))
                     /\ UNCHANGED <<relayVars, animation>>
WeatherArrives    == (\E p \in BagToSet(pending) :
                         /\ p.pc = "weather"
                         /\ \E r \in WeatherResponsesFor(p) : WeatherResolve(p, r))
                     /\ UNCHANGED <<relayVars, animation>>
ForecastArrives   == (\E p \in BagToSet(pending) :
                         /\ p.pc = "forecast"
                         /\ \E r \in ForecastResponses(p.coords) : ForecastResolve(p, r))
                     /\ UNCHANGED <<relayVars, animation>>

\* A step that ends the wait of a query: what fairness is asked of.
GeoResolves     == PositionGranted \/ PositionDenied
HealthResolves  == HealthUp \/ HealthDown

Next ==
    \/ TypeCity
    \/ SubmitEmpty
    \/ SubmitCity
    \/ LocateUnsupported
    \/ Locate
    \/ PositionGranted
    \/ PositionDenied
    \/ HealthUp
    \/ HealthDown
    \/ WeatherArrives
    \/ ForecastArrives

Spec == Init /\ [][Next]_vars

\* Every outstanding geolocation prompt and request eventually resolves.
FairSpec ==
    /\ Spec
    /\ WF_vars(GeoResolves)
    /\ WF_vars(HealthResolves)
    /\ WF_vars(WeatherArrives)
    /\ WF_vars(ForecastArrives)

GetCityWeather   == (Idle /\ \E q \in CityQueries : WeatherReceive(q))
                    /\ UNCHANGED clientVars
GetGeoWeather    == (Idle /\ \E q \in CoordQueries : CoordReceive("/weather/geo", "weather", q))
                    /\ UNCHANGED clientVars
GetForecast      == (Idle /\ \E q \in CoordQueries : CoordReceive("/forecast", "forecast", q))
                    /\ UNCHANGED clientVars
GetCityForecast  == (Idle /\ \E q \in CityQueries : ForecastCityReceive(q))
                    /\ UNCHANGED clientVars
UpstreamAnswers  == (Awaiting /\ \E o \in Outcomes : UpstreamSettles(o))
                    /\ UNCHANGED clientVars
HandlerReturns   == RelayDone /\ UNCHANGED clientVars

RelayNext ==
    \/ GetCityWeather
    \/ GetGeoWeather
    \/ GetForecast
    \/ GetCityForecast
    \/ UpstreamAnswers
    \/ HandlerReturns

\* The relay alone; the client's cells stay as constructed.
RelayOnlyInit == Init /\ geoSupported = TRUE

RelaySpec == RelayOnlyInit /\ [][RelayNext]_vars

\* The component holding an observation, before it is rendered.
AnimationInit ==
    /\ city = ""
    /\ weather \in Conditions
    /\ forecast = <<>>
    /\ error = EmptyStr
    /\ loading = FALSE
    /\ geoSupported = TRUE
    /\ pending = EmptyBag
    /\ last = Step("init", "none", FALSE)
    /\ animation = NotRendered
    /\ RelayInit

\* The render evaluates getAnimation().
Render ==
    /\ animation' = getAnimation
    /\ UNCHANGED <<city, weather, forecast, error, loading, geoSupported, pending, last>>
    /\ UNCHANGED relayVars

AnimationNext == Render

AnimationSpec == AnimationInit /\ [][AnimationNext]_vars

-----------------------------------------------------------------------------
(* Properties of the client *)

\* Some query waits for the geolocation prompt, /health or its weather request.
QueryOutstanding == \E p \in BagToSet(pending) : p.pc \in {"geo", "health", "weather"}

\* The sub-bag of the forecast requests in flight.
ForecastRequests(bag) ==
    [p \in {x \in BagToSet(bag) : x.pc = "forecast"} |-> bag[p]]

\* The steps in which a query fails after its request was started.
QueryFailures == {"health:failed", "weather:failed"}

\* Text that is empty or white space only.
IsBlank(s) == s \in {"", " "}

\* C1: a non-empty error message is never held together with a non-null
\* observation.
C1_ErrorExcludesObservation == error # EmptyStr => weather = Null

\* C2: loading is false whenever no query is outstanding (every exit path of a
\* query that set the flag has cleared it), and, every outstanding prompt and
\* request resolving eventually, a true loading flag eventually becomes false.
C2_LoadingCleared ==
    /\ [](~QueryOutstanding => ~loading)
    /\ (loading ~> ~loading)

\* C2 witness: the last query in flight has just failed on its weather request
\* and the flag is down.
C2_Witness ==
    /\ last.op = "weather:failed"
    /\ pending = EmptyBag
    /\ ~loading

\* C3: getWeather with an empty or white-space-only text issues no request and
\* leaves loading, error, weather and forecast unchanged.
C3_BlankQueryIsNoOp ==
    [][(IsBlank(city) /\ last'.op \in {"getWeather:return", "getWeather:start"})
          => UNCHANGED <<loading, error, weather, forecast, pending>>]_vars

\* C8: a city query whose weather response succeeds stores the observation
\* and adds exactly one forecast request, for the observation's coordinates;
\* a city query that fails adds none.
C8_ForecastFollowsCityQuery ==
    [][/\ (last'.kind = "city" /\ last'.op = "weather:ok") =>
            /\ weather' # Null
            /\ HasCoord(weather')
            /\ ForecastRequests(pending') =
                   ForecastRequests(pending) (+) One(AtForecast(weather'.coord))
       /\ (last'.kind = "city" /\ last'.op \in QueryFailures) =>
            ForecastRequests(pending') = ForecastRequests(pending)]_vars

\* C8 witness: a city query has just stored London's observation and the
\* forecast for London's coordinates is in flight.
C8_Witness ==
    /\ last.kind = "city"
    /\ last.op = "weather:ok"
    /\ weather = ObsLondon
    /\ AtForecast(CoordLondon) \in BagToSet(pending)

\* C9: the geolocation error callback sets the location-failure message and
\* clears loading, and only removes the waiting query (no request is issued);
\* without geolocation the query sets an error and touches neither loading
\* nor the requests.
C9_GeolocationFailures ==
    [][/\ last'.op = "geo:denied" =>
            /\ error' = ErrText(<<"Failed to get your location.">>)
            /\ ~loading'
            /\ pending' = pending (-) One(AtGeo)
       /\ last'.op = "getWeatherByLocation:unsupported" =>
            /\ error' # EmptyStr
            /\ UNCHANGED <<loading, pending>>]_vars

\* C9 witness: the prompt was denied while nothing else was in flight.
C9_Witness ==
    /\ last.op = "geo:denied"
    /\ error = ErrText(<<"Failed to get your location.">>)
    /\ ~loading
    /\ pending = EmptyBag

\* C10: right after a city query failed, the error is non-empty and the
\* observation is null.
C10_CityFailureClearsObservation ==
    (last.kind = "city" /\ last.op \in QueryFailures)
        => (error # EmptyStr /\ weather = Null)

\* C10 witness: a city query failed with HTTP 404 while an observation was
\* stored.
C10_Witness ==
    /\ last = Step("weather:failed", "city", TRUE)
    /\ error = ErrText(<<"HTTP ", "404">>)
    /\ weather = Null

\* The number of invocations that are in bag a and no longer in bag b.
Dropped(a, b) ==
    BagCardinality(a (-) b)

\* The steps that start a query.
QueryStarts == {"getWeather:start", "getWeatherByLocation:start"}

\* The steps that write the weather cell.
WeatherWriters == {"weather:ok", "weather:failed", "health:failed"}

\* C11: overlapping queries are neither cancelled nor suppressed: a new query
\* removes no waiting invocation and a step ends at most one; every weather
\* response that resolves writes the cell (its data, or null when it failed),
\* whatever else is in flight, and no other step than the end of a query
\* writes it.  So after two overlapping weather responses the cell holds what
\* the one that resolved last wrote.
C11_LastResponseWins ==
    /\ [](last.op = "weather:ok" => weather = last.data)
    /\ [](last.op = "weather:failed" => weather = Null)
    /\ [][/\ weather' # weather => last'.op \in WeatherWriters
          /\ Dropped(pending, pending') <= 1
          /\ last'.op \in QueryStarts => Dropped(pending, pending') = 0]_vars

\* C11 witness: the weather responses of two queries in flight together have
\* resolved one after the other; the first left its forecast request for the
\* device's coordinates, the second was a city query and the cell holds its
\* observation.
C11_Witness ==
    /\ last.op = "weather:ok"
    /\ last.kind = "city"
    /\ last.after
    /\ last.data = ObsLondon
    /\ weather = ObsLondon
    /\ AtForecast(CoordDevice) \in BagToSet(pending)

\* C13: a non-empty forecast is the one fetched for the coordinates of the
\* observation held: an observation is held, and every entry of the forecast
\* was requested for its coordinates.
C13_ForecastMatchesObservation ==
    forecast # <<>> =>
        /\ weather # Null
        /\ HasCoord(weather) =>
              \A i \in 1..Len(forecast) : forecast[i].at = weather.coord

\* C14: loading is true whenever the geolocation prompt, the health check or
\* the weather request of some query is outstanding.
C14_LoadingWhileOutstanding == QueryOutstanding => loading

\* Some keyword of ks occurs in s.
AnyIn(s, ks) == \E k \in ks : includes(toLowerCase(s), k)

\* The first category of an ordered list of groups that has a keyword in the
\* label or in the description; "none" when no group has.  A group is a
\* category, the keywords looked for in the label and those looked for in the
\* description.
RECURSIVE FirstMatch(_, _, _)
FirstMatch(groups, m, d) ==
    IF groups = <<>> THEN "none"
    ELSE IF AnyIn(m, Head(groups).label) \/ AnyIn(d, Head(groups).description)
         THEN Head(groups).category
         ELSE FirstMatch(Tail(groups), m, d)

Group(c, l, d) == [category |-> c, label |-> l, description |-> d]

\* The groups as C12 states them: every keyword is looked for in both fields.
GroupsAsStated ==
    <<Group("rain", {<<"rain">>}, {<<"rain">>}),
      Group("snow", {<<"snow">>}, {<<"snow">>}),
      Group("storm", {<<"thunder", "storm">>, <<"storm">>},
                     {<<"thunder", "storm">>, <<"storm">>}),
      Group("cloud", {<<"cloud">>}, {<<"cloud">>}),
      Group("clear", {<<"clear">>, <<"sunny">>}, {<<"clear">>, <<"sunny">>})>>

\* The groups as amended: 'storm' is looked for in the label only and
\* 'thunder' in the description only; 'sunny' in the description only.
GroupsAmended ==
    <<Group("rain", {<<"rain">>}, {<<"rain">>}),
      Group("snow", {<<"snow">>}, {<<"snow">>}),
      Group("storm", {<<"thunder", "storm">>, <<"storm">>}, {<<"thunder">>}),
      Group("cloud", {<<"cloud">>}, {<<"cloud">>}),
      Group("clear", {<<"clear">>}, {<<"clear">>, <<"sunny">>})>>

\* The category for observation o with the given groups, temperature being
\* the fallback: below 0 snow, above 25 clear, otherwise cloud.
Category(groups, o) ==
    LET c == FirstMatch(groups, o.weather[1].main, o.weather[1].description)
    IN  IF c # "none" THEN Asset(c)
        ELSE IF o.main.temp < 0 THEN Asset("snow")
        ELSE IF o.main.temp > 25 THEN Asset("clear")
        ELSE Asset("cloud")

\* C12 as stated: getAnimation returns the category of the first of the
\* groups rain, snow, thunderstorm/storm, cloud, clear/sunny with a keyword in
\* the label or the description, and falls back to temperature otherwise.
C12_AnimationAsStated ==
    animation # NotRendered => animation = Category(GroupsAsStated, weather)

\* C12 amended: the same, except that the storm group looks for
\* 'thunderstorm' or 'storm' in the label and for 'thunder' in the
\* description, and the clear group for 'clear' in both and for 'sunny' in
\* the description only.
C12_Animation ==
    animation # NotRendered => animation = Category(GroupsAmended, weather)

\* C12 witness: 'storm' in the description alone is no match, and 26 degrees
\* give clear.
C12_Witness ==
    /\ weather = Condition(<<"mist">>, <<"storm">>, 26)
    /\ animation = Asset("clear")

-----------------------------------------------------------------------------
(* Properties of the relay *)

\* The whole of s is a number: an optional sign and one digit or more.
IsNumeric(s) ==
    LET body == IF s # <<>> /\ Head(s) \in {"-", "+"} THEN Tail(s) ELSE s
    IN  body # <<>> /\ \A i \in 1..Len(body) : body[i] \in Digits

\* The value of a numeric s.
NumericValue(s) ==
    IF Head(s) = "-" THEN -DecimalValue(Tail(s))
    ELSE IF Head(s) = "+" THEN DecimalValue(Tail(s))
    ELSE DecimalValue(s)

\* lat or lon is missing, not a number, or out of range.
BadCoordinates(q) ==
    \/ "lat" \notin DOMAIN q \/ "lon" \notin DOMAIN q
    \/ ~IsNumeric(q.lat) \/ ~IsNumeric(q.lon)
    \/ NumericValue(q.lat) < -90 \/ NumericValue(q.lat) > 90
    \/ NumericValue(q.lon) < -180 \/ NumericValue(q.lon) > 180

CoordRoutes == {"/weather/geo", "/forecast"}
ForecastRoutes == {"/forecast", "/forecast/city"}

\* C4: on /weather/geo and /forecast, a missing, non-numeric or out-of-range
\* lat or lon is answered 400 and no upstream call is made.
C4_BadCoordinatesRejected ==
    (rq # None /\ rq.route \in CoordRoutes /\ BadCoordinates(rq.query))
        => (res # None /\ res.status = 400 /\ upstream = None)

\* s occurs in t as a run of consecutive symbols.
Contains(t, s) ==
    \E i \in 0..(Len(t) - Len(s)) : SubSeq(t, i + 1, i + Len(s)) = s

\* C5: GET /weather answers 400 without an upstream call when city is empty;
\* otherwise 200 with the upstream payload as it came, 404 with a message that
\* holds the city for upstream 404, 401 for upstream 401, 500 for every other
\* upstream failure.
C5_CityWeatherMapping ==
    (rq # None /\ rq.route = "/weather") =>
        IF "city" \notin DOMAIN rq.query \/ rq.query.city = <<>>
        THEN res # None /\ res.status = 400 /\ upstream = None
        ELSE /\ upstream # None
             /\ res # None =>
                  LET o == upstream.outcome IN
                  CASE o.kind = "ok" -> res = [status |-> 200, body |-> o.data]
                    [] o.kind = "http" /\ o.status = 404 ->
                         /\ res.status = 404
                         /\ Contains(res.body.message, rq.query.city)
                    [] o.kind = "http" /\ o.status = 401 -> res.status = 401
                    [] OTHER -> res.status = 500

\* C5 witness: upstream answered 404 for Nowhereville.
C5_Witness ==
    /\ rq # None /\ res # None /\ upstream # None
    /\ rq.route = "/weather"
    /\ rq.query.city = <<"Nowhereville">>
    /\ upstream.outcome = HttpError(404)
    /\ res.status = 404

\* C6 as stated: GET /weather/geo maps upstream failures as GET /weather does:
\* 404 to 404, 401 to 401, every other failure to 500.
C6_GeoMapsLikeCity ==
    (rq # None /\ rq.route = "/weather/geo" /\ upstream # None /\ res # None
        /\ upstream.outcome.kind # "ok") =>
        LET o == upstream.outcome IN
        CASE o.kind = "http" /\ o.status = 404 -> res.status = 404
          [] o.kind = "http" /\ o.status = 401 -> res.status = 401
          [] OTHER -> res.status = 500

\* C6 amended: GET /weather/geo maps upstream 401 to 401 and every other
\* upstream failure, 404 included, to 500.
C6_GeoMapping ==
    (rq # None /\ rq.route = "/weather/geo" /\ upstream # None /\ res # None
        /\ upstream.outcome.kind # "ok") =>
        LET o == upstream.outcome IN
        IF o.kind = "http" /\ o.status = 401 THEN res.status = 401 ELSE res.status = 500

\* C6 witness: upstream answered 404 on the coordinate route.
C6_Witness ==
    /\ rq # None /\ res # None /\ upstream # None
    /\ rq.route = "/weather/geo"
    /\ upstream.outcome = HttpError(404)
    /\ res.status = 500

\* n / 8 rounded up.
CeilDiv8(n) == (n + 7) \div 8

\* C7: on both forecast routes the daily field of a 200 answer is the entries
\* of the upstream series at indices 0, 8, 16, ... in their order, so it has
\* ceil(n / 8) entries.
C7_DailyEveryEighth ==
    (rq # None /\ rq.route \in ForecastRoutes /\ res # None /\ res.status = 200) =>
        LET list  == upstream.outcome.data.list
            daily == res.body.daily
        IN  /\ Len(daily) = CeilDiv8(Len(list))
            /\ \A i \in 1..Len(daily) : daily[i] = list[8 * (i - 1) + 1]

\* C7 witness: a series of 17 entries gives the entries at indices 0, 8, 16.
C7_Witness ==
    /\ rq # None /\ res # None
    /\ rq.route = "/forecast/city"
    /\ res.status = 200
    /\ Len(res.body.list) = 17
    /\ res.body.daily = <<[dt |-> 1], [dt |-> 9], [dt |-> 17]>>

=============================================================================
